---- MODULE Spec2Model ----
(***************************************************************************)
(* Model of 05_Training_lab_student.py: a straight-line script that loads  *)
(* a question/answer dataset and a pretrained causal language model, runs  *)
(* a few optimization steps, saves and reloads the model, and prints the   *)
(* answers of several models.                                              *)
(*                                                                         *)
(* Text is a sequence of symbols.  The subword vocabulary, the language    *)
(* model and the training loop belong to libraries the script calls; they  *)
(* are modelled by what their calls do at the call sites (a small          *)
(* vocabulary with one merged token, every continuation a model can emit,  *)
(* a counter of parameter updates).                                        *)
(***************************************************************************)
EXTENDS Integers, Sequences, FiniteSets

\* ------------------------------------------------------------ bounds
\* Longest short prompt text, in symbols.
MaxTextLen == 2
\* Longest continuation that is enumerated token by token.
MaxNew == 2
\* Largest train split, in examples.
MaxTrain == 5
\* Largest number of accelerators reported.
MaxDevices == 2

\* ------------------------------------------------- text and slicing
Alphabet == {"a", "b"}

SeqsUpTo(S, n) == UNION {[1..k -> S] : k \in 0..n}

IsPrefix(p, s) == Len(p) <= Len(s) /\ SubSeq(s, 1, Len(p)) = p

Rep(ch, n) == [k \in 1..n |-> ch]

\* s[k:] of Python: a start beyond the end gives the empty string, no error.
PySliceFrom_off_by_one(s, k) == IF k - 1 >= Len(s) THEN << >> ELSE SubSeq(s, k, Len(s))

PySliceFrom(s, k) == IF k >= Len(s) THEN << >> ELSE SubSeq(s, k + 1, Len(s))

\* ------------------------------------------------------- tokenizer
\* Token ids: 0 is the end-of-sequence token (special), 1 = "a", 2 = "b",
\* 3 = the merged subword "ab".
EOS == 0
Vocab == {0, 1, 2, 3}
TextTokens == {1, 2, 3}
Absorbed == -1
Pad == "_"

\* Subword split: every "a" directly followed by "b" becomes the merged
\* token and absorbs that "b"; every other symbol is its own token.
Marked(text) ==
  [k \in 1..Len(text) |->
     IF text[k] = "a" /\ k < Len(text) /\ text[k + 1] = "b" THEN 3
     ELSE IF text[k] = "b" /\ k > 1 /\ text[k - 1] = "a" THEN Absorbed
     ELSE IF text[k] = "a" THEN 1 ELSE 2]

NotAbsorbed(t) == t # Absorbed

Tokenize(text) == SelectSeq(Marked(text), NotAbsorbed)

\* tokenizer.encode(text, truncation=True, max_length=max_length): tokens
\* beyond max_length are silently dropped.
Encode(text, max_length) ==
  LET toks == Tokenize(text)
  IN  IF Len(toks) > max_length THEN SubSeq(toks, 1, max_length) ELSE toks

\* The symbols a token stands for, in two slots (Pad where it has fewer).
Slot(t, half) ==
  CASE t = 1 -> IF half = 1 THEN "a" ELSE Pad
    [] t = 2 -> IF half = 1 THEN "b" ELSE Pad
    [] t = 3 -> IF half = 1 THEN "a" ELSE "b"
    [] OTHER -> Pad

NotPad(ch) == ch # Pad

\* tokenizer.batch_decode(..., skip_special_tokens=True)[0]: the tokens'
\* symbols joined, the end-of-sequence token left out.
Decode(toks) ==
  SelectSeq([k \in 1..(2 * Len(toks)) |-> Slot(toks[(k + 1) \div 2], 2 - (k % 2))],
            NotPad)

\* ------------------------------------------------------ generation
\* A continuation that fills the room left with a repeated pattern.
Fill(p, room) == [k \in 1..room |-> p[((k - 1) % Len(p)) + 1]]

\* Every continuation of at most room tokens a model can emit: it ends with
\* the end-of-sequence token, or it stops because the room is used up.
Continuations(room) ==
  {Append(s, EOS) : s \in {x \in SeqsUpTo(TextTokens, MaxNew) : Len(x) < room}}
    \cup {Fill(p, room) : p \in SeqsUpTo(TextTokens, MaxNew) \ {<< >>}}

\* How model.generate(input_ids, max_length=max_length) can end for a prompt
\* of n tokens: "returned", or "raised" for an exception.  An empty prompt has
\* no last position to continue from.  A prompt that already fills
\* max_length is rejected by library versions that validate the length and
\* is continued by those that only warn.
GenerateEnds(n, max_length) ==
  IF n = 0 THEN {"raised"}
  ELSE IF n >= max_length THEN {"raised", "returned"}
  ELSE {"returned"}

\* The tokens generate can return: the prompt and its continuation, which is
\* a single token when the prompt already fills max_length.
Generate(input_ids, max_length) ==
  LET n == Len(input_ids)
      ends == GenerateEnds(n, max_length)
      news == IF n >= max_length THEN {<<t>> : t \in Vocab}
              ELSE Continuations(max_length - n)
  IN  {[status |-> "raised", tokens |-> << >>] : e \in ends \cap {"raised"}}
        \cup {[status |-> "returned", tokens |-> input_ids \o new] :
                new \in IF "returned" \in ends THEN news ELSE {}}

\* ------------------------------------------------------- inference
DefaultMaxInputTokens == 1000
DefaultMaxOutputTokens == 100

NoCall ==
  [text |-> << >>, max_input_tokens |-> 0, max_output_tokens |-> 0,
   status |-> "none", input_ids |-> << >>, generated |-> << >>,
   decoded |-> << >>, answer |-> << >>]

\* What remains of the decoded output once the prompt is stripped.
StripPrompt_by_tokens(text, input_ids, decoded) == PySliceFrom(decoded, Len(input_ids))

StripPrompt(text, input_ids, decoded) == PySliceFrom(decoded, Len(text))

\* inference(text, model, tokenizer, max_input_tokens, max_output_tokens):
\* the records of all the ways one call can end.
Inference(text, max_input_tokens, max_output_tokens) ==
  LET input_ids == Encode(text, max_input_tokens)
  IN  {[text |-> text, max_input_tokens |-> max_input_tokens,
        max_output_tokens |-> max_output_tokens,
        status |-> g.status, input_ids |-> input_ids, generated |-> g.tokens,
        decoded |-> IF g.status = "returned" THEN Decode(g.tokens) ELSE << >>,
        answer |-> IF g.status = "returned"
                     THEN StripPrompt(text, input_ids, Decode(g.tokens))
                     ELSE << >>] :
         g \in Generate(input_ids, max_output_tokens)}

\* How a call can end: "returned" (an answer) or "raised" (an exception).
InferenceEnds(text, max_input_tokens, max_output_tokens) ==
  GenerateEnds(Len(Encode(text, max_input_tokens)), max_output_tokens)

\* ---------------------------------------------------------- state
VARIABLES
  pc,                        \* the statement the script is at
  failed_at,                 \* the stage whose exception ended the run
  call,                      \* the inference call under study
  train_dataset,             \* the answers of the train split, in order
  test_question,             \* test_dataset[0]['question']
  device_count, device,
  heap,                      \* the model objects: parameters and placement
  base_model, finetuned_slightly_model, finetuned_longer_model,
  trainer,
  disk, writes, reads,       \* checkpoint directories and their accesses
  i, count, scanned          \* the moderation scan

scan_vars == <<i, count, scanned>>
data_vars == <<train_dataset, test_question>>
device_vars == <<device_count, device>>
binding_vars == <<base_model, finetuned_slightly_model, finetuned_longer_model>>
disk_vars == <<disk, writes, reads>>

vars ==
  <<pc, failed_at, call, data_vars, device_vars, heap, binding_vars, trainer,
    disk_vars, scan_vars>>

\* ------------------------------------------------------- the script
\* The statements of the script, top to bottom.
Script_save_before_train ==
  <<"load_tokenizer", "load_data", "load_base", "select_device", "base_to_device",
    "infer_base", "make_trainer", "save", "train", "reload",
    "slightly_to_device", "infer_slightly", "load_longer", "infer_longer",
    "bigger_model", "scan", "reload_base", "infer_mars_base", "infer_mars_longer",
    "hosted_train", "hosted_evaluate", "report", "done">>

Script ==
  <<"load_tokenizer", "load_data", "load_base", "select_device", "base_to_device",
    "infer_base", "make_trainer", "train", "save", "reload",
    "slightly_to_device", "infer_slightly", "load_longer", "infer_longer",
    "bigger_model", "scan", "reload_base", "infer_mars_base", "infer_mars_longer",
    "hosted_train", "hosted_evaluate", "report", "done">>

Idx(stage) == CHOOSE k \in 1..Len(Script) : Script[k] = stage

Succ(stage) == Script[Idx(stage) + 1]

\* The stage the run is at, or was at when it ended.
At == IF pc = "terminated" THEN failed_at ELSE pc

\* The run has gone past `stage`.
Passed(stage) == At \in {Script[k] : k \in 1..Len(Script)} /\ Idx(At) > Idx(stage)

\* An exception nobody catches: the script has no try/except, so the run
\* ends at the statement that raised.
Raise_and_retry ==
  /\ pc \notin {"done", "terminated", "inference", "returned"}
  /\ failed_at = "none"
  /\ failed_at' = pc
  /\ pc' = pc
  /\ UNCHANGED <<call, data_vars, device_vars, heap, binding_vars, trainer,
                 disk_vars, scan_vars>>

Raise ==
  /\ pc \notin {"done", "terminated", "inference", "returned"}
  /\ pc' = "terminated"
  /\ failed_at' = pc
  /\ UNCHANGED <<call, data_vars, device_vars, heap, binding_vars, trainer,
                 disk_vars, scan_vars>>

\* --------------------------------------------------------- dataset
\* The moderation phrase, and answers that hold it, nearly hold it, or not.
Phrase == <<"keep", "the", "discussion", "relevant", "to", "Lamini">>
AnswerInside == <<"Let's">> \o Phrase \o <<"docs">>
AnswerBroken == <<"keep", "the", "discussion", "relevant", "to", "the", "Lamini">>
Answers == {Phrase, AnswerInside, AnswerBroken}

Questions == {<< >>, <<"a", "b">>}
MarsQuestion == <<"b", "a">>

\* needle in hay, of Python strings.
Contains_at_start(needle, hay) == IsPrefix(needle, hay)

Contains(needle, hay) ==
  \E s \in 0..(Len(hay) - Len(needle)) : SubSeq(hay, s + 1, s + Len(needle)) = needle

\* ----------------------------------------------------------- models
Handles == 1..4
NoHandle == 0
NoParams == [base |-> "none", updates |-> 0]
Unloaded == [params |-> NoParams, device |-> "none"]

model_name == "EleutherAI/pythia-70m"
longer_model_name == "lamini/lamini_docs_finetuned"
output_dir == "lamini_docs_3_steps"
save_dir == "lamini_docs_3_steps/final"
checkpoint_dir == "lamini_docs_3_steps/checkpoint"
Paths == {save_dir, checkpoint_dir}

Fresh(hp) == CHOOSE h \in Handles : hp[h] = Unloaded /\ \A g \in Handles : g < h => hp[g] # Unloaded

\* A loaded model is a new object, on the general-purpose processor.
NewModel_in_place(hp, params) ==
  [hp EXCEPT ![1] = [params |-> params, device |-> "cpu"]]

NewModel(hp, params) ==
  [hp EXCEPT ![Fresh(hp)] = [params |-> params, device |-> "cpu"]]

\* AutoModelForCausalLM.from_pretrained(name): a directory's checkpoint, or
\* the registry's parameters for a model name.
FromPretrained(name) ==
  IF name \in Paths THEN disk[name] ELSE [base |-> name, updates |-> 0]

\* model.to(device)
ToDevice(hp, h, d) == [hp EXCEPT ![h].device = d]

\* What save_model writes: the parameters of the trainer's model.
StateDict_stale(hp, h) == [hp[h].params EXCEPT !.updates = 0]

StateDict(hp, h) == hp[h].params

\* --------------------------------------------------------- devices
Device_needs_two(n) == IF n > 1 THEN "cuda" ELSE "cpu"

Device(n) == IF n > 0 THEN "cuda" ELSE "cpu"

\* -------------------------------------------------------- training
max_steps == 3

training_args_no_cap ==
  [max_steps |-> -1, num_train_epochs |-> 1, per_device_train_batch_size |-> 1,
   gradient_accumulation_steps |-> 4, save_steps |-> 120, eval_steps |-> 120]

training_args ==
  [max_steps |-> max_steps, num_train_epochs |-> 1, per_device_train_batch_size |-> 1,
   gradient_accumulation_steps |-> 4, save_steps |-> 120, eval_steps |-> 120]

NoTrainer == [model |-> NoHandle, global_step |-> 0, epoch |-> 0, step |-> 0, returned |-> FALSE]

Max(a, b) == IF a >= b THEN a ELSE b

CeilDiv(a, b) == (a + b - 1) \div b

\* Batches in one pass over the train split.
LenDataloader == CeilDiv(Len(train_dataset), training_args.per_device_train_batch_size)

UpdatesPerEpoch == Max(LenDataloader \div training_args.gradient_accumulation_steps, 1)

\* The step cap decides when it is positive, the epoch count otherwise.
TotalSteps ==
  IF training_args.max_steps > 0 THEN training_args.max_steps
  ELSE training_args.num_train_epochs * UpdatesPerEpoch

NumEpochs ==
  IF training_args.max_steps > 0 THEN CeilDiv(training_args.max_steps, UpdatesPerEpoch)
  ELSE training_args.num_train_epochs

\* ---------------------------------------------------- the pipeline
Init ==
  /\ pc = "load_tokenizer"
  /\ failed_at = "none"
  /\ call = NoCall
  /\ train_dataset = << >>
  /\ test_question = << >>
  /\ device_count = -1
  /\ device = "unset"
  /\ heap = [h \in Handles |-> Unloaded]
  /\ base_model = NoHandle
  /\ finetuned_slightly_model = NoHandle
  /\ finetuned_longer_model = NoHandle
  /\ trainer = NoTrainer
  /\ disk = [p \in Paths |-> NoParams]
  /\ writes = [p \in Paths |-> 0]
  /\ reads = [p \in Paths |-> 0]
  /\ i = 0
  /\ count = 0
  /\ scanned = << >>

\* A statement that changes nothing the script keeps.
Step(stage) ==
  /\ pc = stage
  /\ pc' = Succ(stage)
  /\ UNCHANGED <<failed_at, call, data_vars, device_vars, heap, binding_vars, trainer,
                 disk_vars, scan_vars>>

\* print(inference(text, model, tokenizer)): the answer is printed and not
\* kept; an exception of the call ends the run.
PrintInference(stage, text) ==
  /\ pc = stage
  /\ \E status \in InferenceEnds(text, DefaultMaxInputTokens, DefaultMaxOutputTokens) :
       IF status = "raised"
         THEN pc' = "terminated" /\ failed_at' = stage
         ELSE pc' = Succ(stage) /\ failed_at' = failed_at
  /\ UNCHANGED <<call, data_vars, device_vars, heap, binding_vars, trainer,
                 disk_vars, scan_vars>>

LoadTokenizer == Step("load_tokenizer")

LoadData ==
  /\ pc = "load_data"
  /\ \E ds \in SeqsUpTo(Answers, MaxTrain), q \in Questions :
       /\ train_dataset' = ds
       /\ test_question' = q
  /\ pc' = Succ("load_data")
  /\ UNCHANGED <<failed_at, call, device_vars, heap, binding_vars, trainer,
                 disk_vars, scan_vars>>

LoadBase ==
  /\ pc = "load_base"
  /\ heap' = NewModel(heap, FromPretrained(model_name))
  /\ base_model' = Fresh(heap)
  /\ pc' = Succ("load_base")
  /\ UNCHANGED <<failed_at, call, data_vars, device_vars, finetuned_slightly_model,
                 finetuned_longer_model, trainer, disk_vars, scan_vars>>

SelectDevice ==
  /\ pc = "select_device"
  /\ \E n \in 0..MaxDevices :
       /\ device_count' = n
       /\ device' = Device(n)
  /\ pc' = Succ("select_device")
  /\ UNCHANGED <<failed_at, call, data_vars, heap, binding_vars, trainer,
                 disk_vars, scan_vars>>

BaseToDevice ==
  /\ pc = "base_to_device"
  /\ heap' = ToDevice(heap, base_model, device)
  /\ pc' = Succ("base_to_device")
  /\ UNCHANGED <<failed_at, call, data_vars, device_vars, binding_vars, trainer,
                 disk_vars, scan_vars>>

InferBase == PrintInference("infer_base", test_question)

MakeTrainer ==
  /\ pc = "make_trainer"
  /\ trainer' = [NoTrainer EXCEPT !.model = base_model]
  /\ pc' = Succ("make_trainer")
  /\ UNCHANGED <<failed_at, call, data_vars, device_vars, heap, binding_vars,
                 disk_vars, scan_vars>>

\* One batch of trainer.train(): gradients accumulate, and every
\* gradient_accumulation_steps batches (or at the end of a pass shorter than
\* that) the optimizer updates the parameters of the trainer's model.
TrainBatch ==
  /\ pc = "train"
  /\ ~trainer.returned
  /\ LenDataloader > 0
  /\ trainer.global_step < TotalSteps
  /\ trainer.epoch < NumEpochs
  /\ LET ga == training_args.gradient_accumulation_steps
         last == trainer.step + 1 = LenDataloader
         sync == (trainer.step + 1) % ga = 0 \/ (LenDataloader <= ga /\ last)
         gs == IF sync THEN trainer.global_step + 1 ELSE trainer.global_step
         hp == IF sync THEN [heap EXCEPT ![trainer.model].params.updates = @ + 1]
               ELSE heap
         ckpt == sync /\ gs % training_args.save_steps = 0
     IN  /\ trainer' = [trainer EXCEPT !.global_step = gs,
                                       !.step = IF last THEN 0 ELSE @ + 1,
                                       !.epoch = IF last THEN @ + 1 ELSE @]
         /\ heap' = hp
         /\ disk' = IF ckpt THEN [disk EXCEPT ![checkpoint_dir] = hp[trainer.model].params]
                    ELSE disk
         /\ writes' = IF ckpt THEN [writes EXCEPT ![checkpoint_dir] = @ + 1] ELSE writes
  /\ pc' = pc
  /\ UNCHANGED <<failed_at, call, data_vars, device_vars, binding_vars, reads, scan_vars>>

TrainReturn ==
  /\ pc = "train"
  /\ ~trainer.returned
  /\ \/ LenDataloader = 0
     \/ trainer.global_step >= TotalSteps
     \/ trainer.epoch >= NumEpochs
  /\ trainer' = [trainer EXCEPT !.returned = TRUE]
  /\ pc' = Succ("train")
  /\ UNCHANGED <<failed_at, call, data_vars, device_vars, heap, binding_vars,
                 disk_vars, scan_vars>>

SaveModel ==
  /\ pc = "save"
  /\ disk' = [disk EXCEPT ![save_dir] = StateDict(heap, trainer.model)]
  /\ writes' = [writes EXCEPT ![save_dir] = @ + 1]
  /\ pc' = Succ("save")
  /\ UNCHANGED <<failed_at, call, data_vars, device_vars, heap, binding_vars, trainer,
                 reads, scan_vars>>

\* from_pretrained(save_dir, local_files_only=True): a directory without a
\* checkpoint raises.
Reload ==
  /\ pc = "reload"
  /\ IF disk[save_dir] = NoParams
       THEN /\ pc' = "terminated"
            /\ failed_at' = "reload"
            /\ UNCHANGED <<heap, finetuned_slightly_model, reads>>
       ELSE /\ heap' = NewModel(heap, FromPretrained(save_dir))
            /\ finetuned_slightly_model' = Fresh(heap)
            /\ reads' = [reads EXCEPT ![save_dir] = @ + 1]
            /\ pc' = Succ("reload")
            /\ failed_at' = failed_at
  /\ UNCHANGED <<call, data_vars, device_vars, base_model, finetuned_longer_model,
                 trainer, disk, writes, scan_vars>>

SlightlyToDevice ==
  /\ pc = "slightly_to_device"
  /\ heap' = ToDevice(heap, finetuned_slightly_model, device)
  /\ pc' = Succ("slightly_to_device")
  /\ UNCHANGED <<failed_at, call, data_vars, device_vars, binding_vars, trainer,
                 disk_vars, scan_vars>>

InferSlightly == PrintInference("infer_slightly", test_question)

LoadLonger ==
  /\ pc = "load_longer"
  /\ heap' = ToDevice(NewModel(heap, FromPretrained(longer_model_name)), Fresh(heap), device)
  /\ finetuned_longer_model' = Fresh(heap)
  /\ pc' = Succ("load_longer")
  /\ UNCHANGED <<failed_at, call, data_vars, device_vars, base_model,
                 finetuned_slightly_model, trainer, disk_vars, scan_vars>>

InferLonger == PrintInference("infer_longer", test_question)

\* BasicModelRunner(...)(test_question): a call to the hosted service.
BiggerModel == Step("bigger_model")

\* One pass of the scan loop over range(len(train_dataset)).
ScanStep ==
  /\ pc = "scan"
  /\ i < Len(train_dataset)
  /\ count' = IF Contains(Phrase, train_dataset[i + 1]) THEN count + 1 ELSE count
  /\ scanned' = Append(scanned, i)
  /\ i' = i + 1
  /\ pc' = pc
  /\ UNCHANGED <<failed_at, call, data_vars, device_vars, heap, binding_vars, trainer,
                 disk_vars>>

\* The loop is over: print(count).
ScanEnd ==
  /\ pc = "scan"
  /\ i >= Len(train_dataset)
  /\ pc' = Succ("scan")
  /\ UNCHANGED <<failed_at, call, data_vars, device_vars, heap, binding_vars, trainer,
                 disk_vars, scan_vars>>

\* base_model is bound to a newly loaded model; it is not moved to device.
ReloadBase ==
  /\ pc = "reload_base"
  /\ heap' = NewModel(heap, FromPretrained(model_name))
  /\ base_model' = Fresh(heap)
  /\ pc' = Succ("reload_base")
  /\ UNCHANGED <<failed_at, call, data_vars, device_vars, finetuned_slightly_model,
                 finetuned_longer_model, trainer, disk_vars, scan_vars>>

InferMarsBase == PrintInference("infer_mars_base", MarsQuestion)

InferMarsLonger == PrintInference("infer_mars_longer", MarsQuestion)

HostedTrain == Step("hosted_train")

HostedEvaluate == Step("hosted_evaluate")

Report == Step("report")

Next ==
  \/ LoadTokenizer \/ LoadData \/ LoadBase \/ SelectDevice \/ BaseToDevice
  \/ InferBase \/ MakeTrainer \/ TrainBatch \/ TrainReturn \/ SaveModel \/ Reload
  \/ SlightlyToDevice \/ InferSlightly \/ LoadLonger \/ InferLonger \/ BiggerModel
  \/ ScanStep \/ ScanEnd \/ ReloadBase \/ InferMarsBase \/ InferMarsLonger
  \/ HostedTrain \/ HostedEvaluate \/ Report \/ Raise

Spec == Init /\ [][Next]_vars

\* ------------------------------------- the inference function alone
\* Prompts: every short text, and texts long enough to reach the default
\* limits (as many tokens as max_output_tokens; one more than
\* max_input_tokens).
Texts ==
  SeqsUpTo(Alphabet, MaxTextLen)
    \cup {Rep("b", DefaultMaxOutputTokens), Rep("b", DefaultMaxInputTokens + 1)}

\* The defaults, and explicit limits a caller may pass.
Limits ==
  {[max_input_tokens |-> DefaultMaxInputTokens, max_output_tokens |-> DefaultMaxOutputTokens],
   [max_input_tokens |-> 1, max_output_tokens |-> 3],
   [max_input_tokens |-> 2, max_output_tokens |-> 2]}

\* A model is loaded and placed; inference is about to be called on it.
InitInference ==
  /\ pc = "inference"
  /\ failed_at = "none"
  /\ \E t \in Texts, l \in Limits :
       call = [NoCall EXCEPT !.text = t,
                             !.max_input_tokens = l.max_input_tokens,
                             !.max_output_tokens = l.max_output_tokens,
                             !.status = "pending"]
  /\ train_dataset = << >>
  /\ test_question = << >>
  /\ device_count = 0
  /\ device = Device(0)
  /\ heap = NewModel([h \in Handles |-> Unloaded], [base |-> model_name, updates |-> 0])
  /\ base_model = 1
  /\ finetuned_slightly_model = NoHandle
  /\ finetuned_longer_model = NoHandle
  /\ trainer = NoTrainer
  /\ disk = [p \in Paths |-> NoParams]
  /\ writes = [p \in Paths |-> 0]
  /\ reads = [p \in Paths |-> 0]
  /\ i = 0
  /\ count = 0
  /\ scanned = << >>

InferenceCall ==
  /\ pc = "inference"
  /\ call.status = "pending"
  /\ call' \in Inference(call.text, call.max_input_tokens, call.max_output_tokens)
  /\ pc' = "returned"
  /\ UNCHANGED <<failed_at, data_vars, device_vars, heap, binding_vars, trainer,
                 disk_vars, scan_vars>>

NextInference == InferenceCall

SpecInference == InitInference /\ [][NextInference]_vars

\* ------------------------------------------- claims about inference
Returned == pc = "returned" /\ call.status = "returned"

Untruncated == Len(Tokenize(call.text)) < call.max_input_tokens

\* C1 as stated: for a text whose encoding is shorter than max_input_tokens,
\* the string inference returns never starts with the original prompt text.
C1_AnswerNeverStartsWithPrompt ==
  (Returned /\ Untruncated) => ~IsPrefix(call.text, call.answer)

\* C1, amended: for a text whose encoding is shorter than max_input_tokens
\* and whose decoded output begins with the prompt text, inference removes
\* exactly that one leading copy: the decoded output is the prompt text
\* followed by the returned string (which may begin with the prompt again).
C1_OneLeadingPromptRemoved ==
  (Returned /\ Untruncated /\ IsPrefix(call.text, call.decoded))
    => call.decoded = call.text \o call.answer

\* The continuation repeats a merged-token prompt: the answer starts with it.
C1_Witness ==
  /\ Returned /\ Untruncated
  /\ call.text = <<"a", "b">>
  /\ call.input_ids = <<3>>
  /\ IsPrefix(call.text, call.decoded)
  /\ IsPrefix(call.text, call.answer)

\* C6: inference returns the decoded output without its first len(text)
\* symbols; when the decoded output is no longer than the prompt text the
\* returned string is empty, and stripping raises nothing (a call whose
\* generation returned always returns).
C6_SuffixBeyondPromptOrEmpty ==
  (pc = "returned" /\ call.generated # << >>) =>
    /\ call.status = "returned"
    /\ Len(call.decoded) <= Len(call.text) => call.answer = << >>
    /\ Len(call.decoded) > Len(call.text) =>
         /\ Len(call.answer) = Len(call.decoded) - Len(call.text)
         /\ \A k \in 1..Len(call.answer) : call.answer[k] = call.decoded[Len(call.text) + k]

\* A truncated prompt: the decoded output is shorter than the prompt text.
C6_Witness ==
  /\ Returned
  /\ call.text # << >>
  /\ Len(call.decoded) < Len(call.text)
  /\ call.answer = << >>

\* C7 as stated: the token sequence generation returns (prompt plus new
\* tokens) has at most max_output_tokens tokens, for every prompt of up to
\* max_input_tokens tokens.
C7_GeneratedWithinMaxOutputTokens ==
  (Returned /\ Len(call.input_ids) <= call.max_input_tokens)
    => Len(call.generated) <= call.max_output_tokens

\* ------------------------------------------- claims about the script
\* C2: with max_steps = 3 and num_train_epochs = 1, for every non-empty
\* train split, trainer.train() has performed exactly 3 parameter updates
\* when it returns, whatever the size of the split.
C2_ExactlyThreeOptimizationSteps ==
  (trainer.returned /\ Len(train_dataset) > 0) =>
    /\ trainer.global_step = 3
    /\ heap[trainer.model].params.updates = 3

\* A split longer than gradient_accumulation_steps: the third update falls in
\* the third pass over the data, beyond num_train_epochs = 1.
C2_Witness ==
  /\ trainer.returned
  /\ Len(train_dataset) = 5
  /\ trainer.global_step = 3
  /\ trainer.epoch = 2

C4_DeviceFollowsAcceleratorCount ==
  device_count >= 0 =>
    /\ device \in {"cpu", "cuda"}
    /\ device_count = 0 => device = "cpu"
    /\ device_count >= 1 => device = "cuda"

C4_Witness ==
  /\ Passed("select_device")
  /\ device_count = 1
  /\ device = "cuda"

\* C5: when the scan loop has ended, count is the number of train answers
\* that hold the moderation phrase, and the loop has visited every index
\* 0 .. len-1 once, in order (also for the empty split).
C5_CountEqualsMatchingAnswers ==
  Passed("scan") =>
    /\ count = Cardinality({j \in 1..Len(train_dataset) :
                              train_dataset[j] \in {Phrase, AnswerInside}})
    /\ scanned = [j \in 1..Len(train_dataset) |-> j - 1]

C5_Witness ==
  /\ Passed("scan")
  /\ train_dataset = <<AnswerInside, AnswerBroken, Phrase>>
  /\ count = 2

\* C8: a failure of any stage ends the run at that stage: the step that
\* fails changes nothing but the script's position, and nothing happens
\* after it (no retry, no later stage, no recovery).
C8_FailureEndsTheRun ==
  [][/\ failed_at # "none" => UNCHANGED vars
     /\ (failed_at = "none" /\ failed_at' # "none") =>
          /\ pc' = "terminated"
          /\ failed_at' = pc
          /\ UNCHANGED <<heap, binding_vars, trainer, disk_vars, scan_vars>>]_vars

\* A training step fails after the first parameter update.
C8_Witness ==
  /\ pc = "terminated"
  /\ failed_at = "train"
  /\ trainer.global_step = 1
  /\ writes[save_dir] = 0

C10_OnlyTrainingChangesParameters ==
  [][\A h \in Handles :
       (heap[h] # Unloaded /\ heap'[h].params # heap[h].params) =>
         /\ pc = "train"
         /\ h = trainer.model
         /\ heap'[h].params = [heap[h].params EXCEPT !.updates = @ + 1]]_vars

\* base_model is bound to its second model; the first one keeps its trained
\* parameters.
C10_Witness ==
  /\ Passed("reload_base")
  /\ base_model = 4
  /\ heap[4].params = [base |-> model_name, updates |-> 0]
  /\ heap[1].params = [base |-> model_name, updates |-> 3]
  /\ heap[2].params = [base |-> model_name, updates |-> 3]
  /\ heap[3].params = [base |-> longer_model_name, updates |-> 0]

====
